---- MODULE Spec2Model ----
(***************************************************************************)
(* Model of randrest(pool, n, repeat, balance, maxit) of RandRest.ipynb:   *)
(* rejection sampling of a sequence of n values drawn from pool, under an  *)
(* optional limit on consecutive repeats and an optional balance band.     *)
(*                                                                         *)
(* Python's False is the integer 0, and the code only ever tests repeat    *)
(* and balance for truthiness, so an argument left at its default False is *)
(* the value 0 here.  repeatSet / balanceSet are history variables that    *)
(* remember whether the caller supplied the argument at all.  balance is   *)
(* kept in units of 1/BalDen, and every comparison against n/size(pool)    *)
(* is cross-multiplied, so the arithmetic is exact.                        *)
(***************************************************************************)
EXTENDS Integers, Sequences, FiniteSets

MaxPool == 3      \* largest pool is <<1, ..., MaxPool>>
MaxN == 3         \* n ranges over 0..MaxN
MaxRepeat == 2    \* repeat ranges over 0..MaxRepeat
MaxBal == 2       \* balance ranges over 0..MaxBal, in units of 1/BalDen
BalDen == 2       \* resolution of balance: halves
MaxIt == 2        \* maxit ranges over -1..MaxIt
MaxSize == 5      \* size of a call: Len(pool) + n <= MaxSize
MaxDraws == MaxIt + 1   \* cap on draws of a call whose loop has no budget

VARIABLES pool, n, repeat, balance, maxit,   \* the arguments
          repeatSet, balanceSet,             \* history: argument supplied
          pc,                                \* position in randrest
          samples, check, stop, values, counts,
          ret,                               \* the returned samples[:-1]
          exc,                               \* the raised exception
          draws,                             \* history: calls of choice
          nviol,                             \* history: rejected candidates
          maxitRead                          \* history: maxit was evaluated

vars == <<pool, n, repeat, balance, maxit, repeatSet, balanceSet, pc,
          samples, check, stop, values, counts,
          ret, exc, draws, nviol, maxitRead>>

args == <<pool, n, repeat, balance, maxit, repeatSet, balanceSet>>

----------------------------------------------------------------------------
(* Helpers: Python and numpy primitives used by randrest.                  *)

Range(s) == {s[i] : i \in DOMAIN s}

Truthy(x) == x # 0

Min(a, b) == IF a < b THEN a ELSE b
Max(a, b) == IF a > b THEN a ELSE b

\* Python index normalisation of a slice bound i for a sequence of length L
SliceIndex(i, L) == IF i < 0 THEN Max(0, i + L) ELSE Min(i, L)

\* s[lo:hi] with 0-based, possibly negative bounds
PySlice(s, lo, hi) ==
    LET a == SliceIndex(lo, Len(s))
        b == SliceIndex(hi, Len(s))
    IN  IF b <= a THEN <<>> ELSE SubSeq(s, a + 1, b)

\* s[:-1] written with an off-by-one mutation: the whole array
ButLastKeepAll(s) == s

\* s[:-1]
ButLast(s) == PySlice(s, 0, -1)

\* a == b, elementwise, for arrays of equal length
ElemEq(a, b) == [k \in 1..Len(a) |-> a[k] = b[k]]

\* a * b, elementwise, for boolean arrays of equal length
ElemMul(a, b) == [k \in 1..Len(a) |-> a[k] /\ b[k]]

\* mutation: np.all in place of np.any
NpAll(a) == \A k \in DOMAIN a : a[k]

\* np.any
NpAny(a) == \E k \in DOMAIN a : a[k]

Count(v, s) == Cardinality({k \in DOMAIN s : s[k] = v})

RECURSIVE SortSet(_)
SortSet(S) ==
    IF S = {} THEN <<>>
    ELSE LET m == CHOOSE x \in S : \A y \in S : x <= y
         IN  <<m>> \o SortSet(S \ {m})

\* np.unique(s, return_counts=True)
Unique(s) ==
    LET v == SortSet(Range(s))
    IN  [values |-> v, counts |-> [k \in 1..Len(v) |-> Count(v[k], s)]]

\* np.random.choice(pool, size): every array of that size over pool
Choice(p, size) == [1..size -> Range(p)]

----------------------------------------------------------------------------
(* The two restriction checks of the loop body.                             *)

\* mutation: both slices end one element early, so the last window is lost
RECURSIVE RepLoopShort(_, _, _)
RepLoopShort(s, r, i) ==
    LET cmp == ElemEq(PySlice(s, i - 1, 0 - r + i - 3),
                      PySlice(s, i, 0 - r + i - 2))
    IN  IF i = 1 THEN cmp ELSE ElemMul(RepLoopShort(s, r, i - 1), cmp)

RepCheckShort(s, r) ==
    IF Truthy(r) THEN RepLoopShort(s, r, r) ELSE <<FALSE>>

\* mutation: both slices end one element late, so the last window holds the
\* dummy element
RECURSIVE RepLoopWide(_, _, _)
RepLoopWide(s, r, i) ==
    LET cmp == ElemEq(PySlice(s, i - 1, Max(0, Len(s) - r + i - 1)),
                      PySlice(s, i, Max(0, Len(s) - r + i)))
    IN  IF i = 1 THEN cmp ELSE ElemMul(RepLoopWide(s, r, i - 1), cmp)

\* repcheck after the iterations 1..i of the for loop; the scalar True the
\* product starts from broadcasts, so the first iteration yields the
\* comparison itself
RECURSIVE RepLoop(_, _, _)
RepLoop(s, r, i) ==
    LET cmp == ElemEq(PySlice(s, i - 1, 0 - r + i - 2),
                      PySlice(s, i, 0 - r + i - 1))
    IN  IF i = 1 THEN cmp ELSE ElemMul(RepLoop(s, r, i - 1), cmp)

\* lines 66-71; the scalar False is a one-element array
RepCheck(s, r) ==
    IF Truthy(r) THEN RepLoop(s, r, r) ELSE <<FALSE>>

\* counts < n/size(pool) - balance
Below(c, nn, p, b) == c * Len(p) * BalDen < nn * BalDen - b * Len(p)

\* mutation: the upper bound is taken one too high
AboveLoose(c, nn, p, b) ==
    c * Len(p) * BalDen > (nn + Len(p)) * BalDen + b * Len(p)

\* counts > n/size(pool) + balance
Above(c, nn, p, b) == c * Len(p) * BalDen > nn * BalDen + b * Len(p)

\* mutation: only the upper bound is tested
BalCheckUpperOnly(cnts, nn, p, b) ==
    \E k \in DOMAIN cnts : Above(cnts[k], nn, p, b)

\* line 76
BalCheck(cnts, nn, p, b) ==
    \/ \E k \in DOMAIN cnts : Below(cnts[k], nn, p, b)
    \/ \E k \in DOMAIN cnts : Above(cnts[k], nn, p, b)

\* mutation: the budget is compared one iteration late
BudgetHitLate(st, mx) == st = mx + 1

\* mutation: the budget is compared one iteration early
BudgetHitEarly(st, mx) == st + 1 = mx

\* line 82: stop == maxit
BudgetHit(st, mx) == st = mx

----------------------------------------------------------------------------
(* State machine.                                                          *)

NoExc == [type |-> "None", maxit |-> 0]

Pools == {[i \in 1..k |-> i] : k \in 1..MaxPool} \cup {<<1, 1, 2>>}

Init ==
    /\ pool \in Pools
    /\ n \in 0..MaxN
    /\ Len(pool) + n <= MaxSize
    /\ repeatSet \in BOOLEAN
    /\ repeat \in (IF repeatSet THEN 0..MaxRepeat ELSE {0})
    /\ balanceSet \in BOOLEAN
    /\ balance \in (IF balanceSet THEN 0..MaxBal ELSE {0})
    /\ maxit \in -1..MaxIt
    /\ pc = "start"
    /\ samples = <<>>
    /\ check = FALSE
    /\ stop = 0
    /\ values = <<>>
    /\ counts = <<>>
    /\ ret = <<>>
    /\ exc = NoExc
    /\ draws = 0
    /\ nviol = 0
    /\ maxitRead = FALSE

\* mutation: the unrestricted draw is made subject to the budget as well
NoRestrictionsBudgeted ==
    /\ pc = "start"
    /\ ~Truthy(repeat) /\ ~Truthy(balance)
    /\ maxitRead' = TRUE
    /\ IF maxit >= 1
         THEN /\ samples' \in Choice(pool, n + 1)
              /\ draws' = draws + 1
              /\ pc' = "return"
              /\ UNCHANGED exc
         ELSE /\ exc' = [type |-> "StopIteration", maxit |-> maxit]
              /\ pc' = "raised"
              /\ UNCHANGED <<samples, draws>>
    /\ UNCHANGED <<args, check, stop, values, counts,
                   ret, nviol>>

\* lines 52-53: no restriction is required, one draw and straight to return
NoRestrictions ==
    /\ pc = "start"
    /\ ~Truthy(repeat) /\ ~Truthy(balance)
    /\ samples' \in Choice(pool, n + 1)
    /\ draws' = draws + 1
    /\ pc' = "return"
    /\ UNCHANGED <<args, check, stop, values, counts,
                   ret, exc, nviol, maxitRead>>

\* lines 55-58
InitLoop ==
    /\ pc = "start"
    /\ (Truthy(repeat) \/ Truthy(balance))
    /\ check' = TRUE
    /\ stop' = 1
    /\ pc' = "while"
    /\ UNCHANGED <<args, samples, values, counts,
                   ret, exc, draws, nviol, maxitRead>>

\* mutation: the loop draws again whether or not the last candidate passed
DrawChoiceUnchecked ==
    /\ pc = "while"
    /\ draws < MaxDraws
    /\ samples' \in Choice(pool, n + 1)
    /\ draws' = draws + 1
    /\ pc' = "restrict"
    /\ UNCHANGED <<args, check, stop, values, counts,
                   ret, exc, nviol, maxitRead>>

\* lines 61-63: the loop condition holds, draw a candidate
DrawChoice ==
    /\ pc = "while"
    /\ check
    /\ draws < MaxDraws
    /\ samples' \in Choice(pool, n + 1)
    /\ draws' = draws + 1
    /\ pc' = "restrict"
    /\ UNCHANGED <<args, check, stop, values, counts,
                   ret, exc, nviol, maxitRead>>

\* line 61: the loop condition fails, fall through to the return
ExitLoop ==
    /\ pc = "while"
    /\ ~check
    /\ pc' = "return"
    /\ UNCHANGED <<args, samples, check, stop, values,
                   counts, ret, exc, draws, nviol, maxitRead>>

\* lines 65-84, the rest of the loop body: repcheck and balcheck are
\* computed from the candidate and used at once for check; values and counts
\* are assigned only if balance is set; "and" short-circuits, so maxit is
\* evaluated only if check holds
Restrictions ==
    /\ pc = "restrict"
    /\ LET repcheck == RepCheck(samples, repeat)
           u == Unique(ButLast(samples))
           balcheck == IF Truthy(balance)
                         THEN BalCheck(u.counts, n, pool, balance)
                         ELSE FALSE
           c == NpAny(repcheck) \/ balcheck
       IN  /\ IF Truthy(balance)
                THEN values' = u.values /\ counts' = u.counts
                ELSE UNCHANGED <<values, counts>>
           /\ check' = c
           /\ maxitRead' = (maxitRead \/ c)
           /\ nviol' = (IF c THEN nviol + 1 ELSE nviol)
           /\ IF c /\ BudgetHit(stop, maxit)
                THEN /\ exc' = [type |-> "StopIteration", maxit |-> maxit]
                     /\ pc' = "raised"
                     /\ UNCHANGED stop
                ELSE /\ stop' = stop + 1
                     /\ pc' = "while"
                     /\ UNCHANGED exc
    /\ UNCHANGED <<args, samples, ret, draws>>

\* mutation: the histogram is taken over all n+1 drawn elements
ReturnWithDummy ==
    /\ pc = "return"
    /\ LET u == Unique(samples)
       IN  /\ values' = u.values
           /\ counts' = u.counts
    /\ ret' = ButLast(samples)
    /\ pc' = "returned"
    /\ UNCHANGED <<args, samples, check, stop, exc,
                   draws, nviol, maxitRead>>

\* lines 86-88
Return ==
    /\ pc = "return"
    /\ LET u == Unique(ButLast(samples))
       IN  /\ values' = u.values
           /\ counts' = u.counts
    /\ ret' = ButLast(samples)
    /\ pc' = "returned"
    /\ UNCHANGED <<args, samples, check, stop, exc,
                   draws, nviol, maxitRead>>

Next ==
    \/ NoRestrictions
    \/ InitLoop
    \/ DrawChoice
    \/ ExitLoop
    \/ Restrictions
    \/ Return

Spec == Init /\ [][Next]_vars

\* The enabling condition of Next, read off the guards of its actions: the
\* only guard besides the position is the loop condition, and, for a call
\* that runs without a budget, the cap on the draws of the model.
CanStep ==
    \/ pc \in {"start", "restrict", "return"}
    \/ pc = "while" /\ (~check \/ draws < MaxDraws)

CanStepIsEnabled == CanStep <=> ENABLED <<Next>>_vars

\* The call is one sequential computation, so a step that can be taken is
\* taken: weak fairness of Next, WF_vars(Next), written out with CanStep
\* for ENABLED <<Next>>_vars.
Fairness == []<>(~CanStep) \/ []<><<Next>>_vars

LiveSpec == Init /\ [][Next]_vars /\ Fairness

----------------------------------------------------------------------------
(* Vocabulary of the properties.                                           *)

\* s holds len identical consecutive elements somewhere
HasRun(s, len) ==
    \E k \in 1..(Len(s) - len + 1) : \A j \in k..(k + len - 1) : s[j] = s[k]

\* c lies in [n/|pool| - balance, n/|pool| + balance]
InBand(c) ==
    /\ c * Len(pool) * BalDen >= n * BalDen - balance * Len(pool)
    /\ c * Len(pool) * BalDen <= n * BalDen + balance * Len(pool)

RECURSIVE SumSeq(_)
SumSeq(s) == IF s = <<>> THEN 0 ELSE Head(s) + SumSeq(Tail(s))

Restricted == Truthy(repeat) \/ Truthy(balance)

InLoop == pc \in {"while", "restrict"}

Terminated == pc \in {"returned", "raised"}

----------------------------------------------------------------------------
(* C1: whenever randrest returns with a (positive) balance tolerance set,  *)
(* EVERY value of pool, one that does not occur in the returned sequence   *)
(* included, has its number of occurrences in the band                     *)
(* [n/|pool| - t, n/|pool| + t].  The code tests only the counts of the    *)
(* values np.unique finds, so this is violated.                            *)
C1_BalanceEveryPoolValue ==
    (pc = "returned" /\ balanceSet /\ balance > 0)
        => \A v \in Range(pool) : InBand(Count(v, ret))

(* C2: whenever randrest returns with repeat = r >= 1, the n returned      *)
(* elements hold no run of r+1 identical consecutive elements, at the      *)
(* start, in the middle or ending at the last returned element.            *)
C2_RepeatInvariant ==
    (pc = "returned" /\ repeatSet /\ repeat >= 1)
        => (Len(ret) = n /\ ~HasRun(ret, repeat + 1))

\* accepted after a rejection, with a run of exactly r at the very end that
\* the dummy element would extend to r+1
C2_Witness ==
    /\ pc = "returned" /\ repeatSet /\ repeat = 2 /\ n = 3
    /\ nviol >= 1
    /\ ret[2] = ret[3] /\ samples[4] = ret[3]

(* C3: with an infeasible restriction (repeat = 0 supplied, a pool of one  *)
(* value and n > 1; or balance = 0 supplied and n not divisible by         *)
(* |pool|) and a small positive budget, the call does not return a         *)
(* sequence.  Both 0 values are falsy, so the code returns the first draw. *)
C3_InfeasibleNeverReturns ==
    ( /\ maxit >= 1
      /\ \/ (repeatSet /\ repeat = 0 /\ Len(pool) = 1 /\ n > 1)
         \/ (balanceSet /\ balance = 0 /\ n % Len(pool) # 0) )
        => pc # "returned"

(* C4: a supplied tolerance of 0 is an active restriction: with            *)
(* balance = 0 and n divisible by |pool| (a pool of distinct values),      *)
(* every returned sequence holds each pool value exactly n/|pool| times.   *)
(* The code treats the supplied 0 as "no balance", so this is violated.    *)
C4_ZeroToleranceIsActive ==
    ( /\ pc = "returned" /\ balanceSet /\ balance = 0
      /\ Cardinality(Range(pool)) = Len(pool)
      /\ n % Len(pool) = 0 )
        => \A v \in Range(pool) : Count(v, ret) * Len(pool) = n

(* C5: a call with maxit >= 1 and a restriction supplied never makes more  *)
(* than maxit draws, and it eventually returns or raises.                  *)
Budgeted == maxit >= 1 /\ (repeatSet \/ balanceSet)

C5_BoundedTermination ==
    /\ [](Budgeted => draws <= maxit)
    /\ (Budgeted ~> Terminated)

\* the last permitted candidate is the one accepted
C5_Witness ==
    /\ pc = "returned" /\ Restricted
    /\ maxit >= 2 /\ draws = maxit

(* C6: the budget error is raised exactly when the first maxit candidates  *)
(* all violate a restriction: at the raise exactly maxit candidates were   *)
(* drawn and all of them rejected, the last one included, and the error    *)
(* carries maxit; and once maxit >= 1 candidates have been rejected the    *)
(* call does not go on to another iteration or to the return.              *)
C6_BudgetErrorExact ==
    /\ pc = "raised" =>
          /\ exc = [type |-> "StopIteration", maxit |-> maxit]
          /\ draws = maxit /\ nviol = maxit /\ check
    /\ pc # "raised" => exc = NoExc
    /\ (maxit >= 1 /\ pc \in {"while", "return", "returned"})
          => nviol < maxit

\* raised after two rejected candidates
C6_Witness ==
    pc = "raised" /\ maxit = 2 /\ draws = 2 /\ nviol = 2

(* C7: a call with maxit <= 0 and a restriction in force never draws and   *)
(* never enters the retry loop.  The code validates nothing: it enters the *)
(* loop, draws, and has no budget at all since stop starts at 1.           *)
C7_BadBudgetNeverDraws ==
    (maxit <= 0 /\ Restricted) => (draws = 0 /\ ~InLoop)

(* C8: a call with neither repeat nor balance supplied draws exactly once, *)
(* never evaluates maxit, never raises and stays out of the retry loop,    *)
(* whatever maxit is, and it eventually returns.                           *)
Unrestricted == ~repeatSet /\ ~balanceSet

C8_FastPath ==
    /\ [](Unrestricted => /\ ~maxitRead
                           /\ exc = NoExc /\ ~InLoop /\ pc # "raised"
                           /\ draws = (IF pc = "start" THEN 0 ELSE 1))
    /\ (Unrestricted ~> pc = "returned")

\* an unrestricted call with a negative budget returned a sequence that a
\* repeat limit would have rejected
C8_Witness ==
    /\ pc = "returned" /\ ~repeatSet /\ ~balanceSet
    /\ maxit < 0 /\ draws = 1
    /\ n >= 2 /\ HasRun(ret, 2)

(* C9: every returned sequence has exactly n elements, although every      *)
(* candidate is drawn with n+1 elements.                                   *)
C9_Length ==
    pc = "returned" => (Len(ret) = n /\ Len(samples) = n + 1)

\* returned from the loop with both restrictions in force
C9_Witness ==
    /\ pc = "returned" /\ Truthy(repeat) /\ Truthy(balance)
    /\ n >= 2 /\ Len(samples) = n + 1 /\ Len(ret) = n

(* C10: on every return the counts sum to n, every returned value is a     *)
(* member of pool, and values/counts are the histogram of the returned     *)
(* sequence: not of all n+1 drawn elements, not of a rejected candidate.   *)
C10_Histogram ==
    pc = "returned" =>
        /\ SumSeq(counts) = n
        /\ \A k \in DOMAIN ret : ret[k] \in Range(pool)
        /\ Len(values) = Len(counts)
        /\ Len(values) = Cardinality(Range(values))
        /\ Range(values) = Range(ret)
        /\ \A k \in DOMAIN values : counts[k] = Count(values[k], ret)

\* accepted after a rejection, the dummy being a value the returned sequence
\* does not hold
C10_Witness ==
    /\ pc = "returned" /\ Truthy(balance) /\ nviol >= 1
    /\ n >= 2 /\ samples[n + 1] \notin Range(ret)

(* C11: as the docstring says, the returned values is the pool: every      *)
(* value of pool has an entry in values/counts, with count 0 if it does    *)
(* not occur in the sequence.  np.unique lists only the values that occur, *)
(* so this is violated.                                                    *)
C11_ValuesIsPool ==
    pc = "returned" =>
        /\ Range(pool) \subseteq Range(values)
        /\ Len(values) = Len(counts)
        /\ \A k \in DOMAIN values : counts[k] = Count(values[k], ret)

(* C12, as claimed: for n = 0 the call never enters the retry loop.        *)
C12_ZeroLengthSkipsLoop ==
    n = 0 => ~InLoop

(* C12, amended: for n = 0, with any combination of restrictions, the call *)
(* draws exactly once, rejects nothing, never evaluates maxit, never       *)
(* raises, and returns an empty sequence and an empty histogram; with a    *)
(* restriction in force it does so by one pass through the retry loop,     *)
(* where the empty candidate is validated and accepted.  It does return:   *)
(* short of the return a step can always be taken, and the loop is left    *)
(* after the one draw.                                                     *)
C12_ZeroLength ==
    n = 0 =>
        /\ nviol = 0 /\ ~maxitRead /\ pc # "raised"
        /\ draws <= 1
        /\ (pc = "while" => (check <=> draws = 0))
        /\ (pc # "returned" => CanStep)
        /\ (Restricted /\ pc \in {"return", "returned"}
               => stop = 2 /\ ~check)
        /\ (pc = "returned"
               => /\ draws = 1
                  /\ ret = <<>> /\ values = <<>> /\ counts = <<>>)

\* an empty sequence returned through the loop, by a call without a budget
C12_Witness ==
    /\ pc = "returned" /\ n = 0
    /\ Truthy(repeat) /\ Truthy(balance) /\ maxit <= 0
    /\ draws = 1 /\ stop = 2 /\ Len(samples) = 1

(* C14: the slice-based repeat check agrees with the reference scan: for   *)
(* every drawn array and r >= 1, np.any(repcheck) holds iff some window    *)
(* samples[k..k+r], 0 <= k <= n-r-1, is constant; the two slices of every  *)
(* iteration have the same length max(0, n-r), so for r >= n repcheck is   *)
(* empty and the check is never violated.                                  *)
RefScan(s, nn, r) ==
    \E k \in 0..(nn - r - 1) : \A j \in 0..r : s[k + j + 1] = s[k + 1]

C14_SliceCheckIsScan ==
    (pc = "restrict" /\ repeat >= 1) =>
        /\ \A i \in 1..repeat :
              /\ Len(PySlice(samples, i - 1, 0 - repeat + i - 2))
                    = Max(0, n - repeat)
              /\ Len(PySlice(samples, i, 0 - repeat + i - 1))
                    = Max(0, n - repeat)
        /\ Len(RepCheck(samples, repeat)) = Max(0, n - repeat)
        /\ NpAny(RepCheck(samples, repeat)) <=> RefScan(samples, n, repeat)
        /\ (repeat >= n => ~NpAny(RepCheck(samples, repeat)))

\* three equal elements, the dummy being the third: no window of the scan
C14_Witness ==
    /\ pc = "restrict" /\ repeat = 2 /\ n = 3
    /\ samples[1] # samples[2]
    /\ samples[2] = samples[3] /\ samples[3] = samples[4]
    /\ ~NpAny(RepCheck(samples, repeat))

(* C15: the n+1-th drawn element is a pure dummy.  The outcome of an       *)
(* attempt (check, values and counts after it, and the return) is a        *)
(* function of the candidate, and that function gives the                  *)
(* same repeat check, balance check, decision, sequence and histogram for  *)
(* any two candidates that differ only in the last element; so two         *)
(* executions whose draws agree on the first n elements make the same      *)
(* decisions, the same number of attempts and the same return.             *)
RepOf(s) == NpAny(RepCheck(s, repeat))

BalOf(s) ==
    IF Truthy(balance)
      THEN BalCheck(Unique(ButLast(s)).counts, n, pool, balance)
      ELSE FALSE

WithDummy(s, d) == [s EXCEPT ![Len(s)] = d]

C15_DummyIsUnused ==
    /\ pc \in {"restrict", "while", "return", "returned", "raised"}
          /\ draws >= 1 =>
          \A d \in Range(pool) :
             /\ RepOf(WithDummy(samples, d)) = RepOf(samples)
             /\ BalOf(WithDummy(samples, d)) = BalOf(samples)
             /\ ButLast(WithDummy(samples, d)) = ButLast(samples)
             /\ Unique(ButLast(WithDummy(samples, d)))
                   = Unique(ButLast(samples))
    /\ (Restricted /\ pc \in {"while", "return", "returned", "raised"}
          /\ draws >= 1) =>
          /\ check = (RepOf(samples) \/ BalOf(samples))
          /\ (Truthy(balance) /\ pc # "returned" =>
                /\ values = Unique(ButLast(samples)).values
                /\ counts = Unique(ButLast(samples)).counts)
    /\ pc = "returned" =>
          /\ ret = ButLast(samples)
          /\ values = Unique(ButLast(samples)).values
          /\ counts = Unique(ButLast(samples)).counts

\* an accepted candidate that ends in a run of exactly r elements which the
\* dummy, were it read, would extend to r+1
C15_Witness ==
    /\ pc = "returned" /\ Truthy(repeat) /\ Truthy(balance)
    /\ n >= 2 /\ repeat = 1
    /\ samples[n + 1] = samples[n]
    /\ nviol >= 1

(* C16: with a restriction in force the check of an attempt is true        *)
(* exactly if the candidate violates one (a run of repeat+1 equal elements *)
(* among the first n, or an occurring value with a count outside the       *)
(* band); the sequence returned is the first candidate that violates none: *)
(* all candidates drawn before it were rejected, and after the accepted    *)
(* one nothing is drawn any more.                                          *)
FirstN(s) == SubSeq(s, 1, n)

Violates(s) ==
    \/ Truthy(repeat) /\ HasRun(FirstN(s), repeat + 1)
    \/ Truthy(balance) /\
          \E v \in Range(FirstN(s)) : ~InBand(Count(v, FirstN(s)))

ExampleN == 40
ExampleRepeat == 2
ExampleBalance == 1 * BalDen
DefaultMaxit == 100000
MaxSkew == 1
MaxRun == 3

ExamplePool == <<1, 2, 3>>

\* the array that takes, value after value in turn, up to run elements of
\* what is left of the histogram c
RECURSIVE Arrange(_, _, _, _)
Arrange(c, v, run, acc) ==
    IF \A w \in DOMAIN c : c[w] = 0
      THEN acc
      ELSE LET k == Min(run, c[v])
           IN  Arrange([c EXCEPT ![v] = @ - k], (v % Len(c)) + 1, run,
                       acc \o [j \in 1..k |-> ExamplePool[v]])

Histograms ==
    {c \in [1..3 -> (13 - MaxSkew)..(14 + MaxSkew)] :
        c[1] + c[2] + c[3] = ExampleN}
      \cup {<<ExampleN \div 2, ExampleN \div 2, 0>>}

ExampleCandidates ==
    {Append(Arrange(c, 1, run, <<>>), d) :
        c \in Histograms, run \in 1..MaxRun, d \in Range(ExamplePool)}

ExampleInit ==
    /\ pool = ExamplePool
    /\ n = ExampleN
    /\ repeatSet = TRUE
    /\ repeat = ExampleRepeat
    /\ balanceSet = TRUE
    /\ balance = ExampleBalance
    /\ maxit \in {MaxIt, DefaultMaxit}
    /\ pc = "start"
    /\ samples = <<>>
    /\ check = FALSE
    /\ stop = 0
    /\ values = <<>>
    /\ counts = <<>>
    /\ ret = <<>>
    /\ exc = NoExc
    /\ draws = 0
    /\ nviol = 0
    /\ maxitRead = FALSE

\* lines 61-63 for the demo call
DrawExample ==
    /\ pc = "while"
    /\ check
    /\ draws < MaxDraws
    /\ samples' \in ExampleCandidates
    /\ draws' = draws + 1
    /\ pc' = "restrict"
    /\ UNCHANGED <<args, check, stop, values, counts,
                   ret, exc, nviol, maxitRead>>

ExampleNext ==
    \/ InitLoop
    \/ DrawExample
    \/ ExitLoop
    \/ Restrictions
    \/ Return

ExampleSpec == ExampleInit /\ [][ExampleNext]_vars

\* the calls of Spec and the demo call together
WideNext ==
    \/ n # ExampleN /\ Next
    \/ n = ExampleN /\ ExampleNext

WideSpec == (Init \/ ExampleInit) /\ [][WideNext]_vars

(* C13: every sequence returned by randrest([1,2,3], 40, 2, 1) has 40      *)
(* elements over {1,2,3}, no value 3 or more times in a row, and each of   *)
(* 1, 2 and 3 occurring 13 or 14 times.                                    *)
C13_Example ==
    (pc = "returned" /\ pool = ExamplePool /\ n = ExampleN
        /\ repeat = ExampleRepeat /\ balance = ExampleBalance) =>
        /\ Len(ret) = 40
        /\ Range(ret) \subseteq {1, 2, 3}
        /\ ~HasRun(ret, 3)
        /\ \A v \in {1, 2, 3} : Count(v, ret) \in {13, 14}
        /\ values = <<1, 2, 3>>

\* returned as the third candidate, after one with a value three times in a
\* row and one with a value occurring only 12 times
C13_Witness ==
    /\ pc = "returned" /\ pool = ExamplePool /\ n = ExampleN
    /\ repeat = ExampleRepeat /\ balance = ExampleBalance
    /\ maxit = DefaultMaxit
    /\ draws = 3 /\ nviol = 2
    /\ ret[ExampleN - 1] = ret[ExampleN] /\ samples[ExampleN + 1] = ret[ExampleN]

(* C17: whenever randrest returns with a non-zero balance tolerance, every *)
(* value that occurs in the returned sequence has its count in the band,   *)
(* and no pool value has a count above n/|pool| + t; only the lower bound  *)
(* of the pool values that do not occur is left unchecked.                 *)
C17_BalanceOfOccurringValues ==
    (pc = "returned" /\ Truthy(balance)) =>
        /\ \A v \in Range(ret) : InBand(Count(v, ret))
        /\ \A v \in Range(pool) :
              Count(v, ret) * Len(pool) * BalDen
                 <= n * BalDen + balance * Len(pool)

\* returned although a pool value is absent and 0 lies below the band
C17_Witness ==
    /\ pc = "returned" /\ Truthy(balance)
    /\ \E v \in Range(pool) : v \notin Range(ret) /\ ~InBand(0)

====
